---- MODULE Spec2Model ----
(***************************************************************************)
(* Tabu search engine for the set-cover quadratic binary function problem  *)
(* (src/scqbf/scqbf_ts.py): ScQbfTS.solve, its termination check, the two  *)
(* neighbourhood-move strategies, the tabu list and the restart            *)
(* intensification component.                                              *)
(*                                                                         *)
(* Element indices are 0 .. n-1 as in the source.  A Python list is a      *)
(* sequence; an optional value (None or x) is the empty sequence or <<x>>. *)
(* Objective values and deltas are integers (the instance matrices below   *)
(* hold integers, so the evaluator's float arithmetic is exact on them).   *)
(***************************************************************************)
EXTENDS Integers, Sequences, FiniteSets, TLC

VARIABLES
    instance,            \* index of the problem instance (self.instance)
    config,              \* TSConfig and the stopping parameters of ScQbfTS
    pc,                  \* position in solve(): construct / check / body / done / error
    best_solution,       \* self.best_solution (None before construction)
    current_solution,    \* self.current_solution
    prev_best_solution,  \* self._prev_best_solution
    tabu_list,           \* self.tabu_list
    fixed_elements,      \* self._fixed_elements
    recency_memory,      \* ibr_component.recency_memory (indexed e+1)
    iter,                \* self._iter
    no_improvement_iter, \* self._no_improvement_iter
    execution_time,      \* self.execution_time
    stop_reason,         \* self.stop_reason
    body_count,          \* history: loop bodies executed so far
    nonimp_run,          \* history: trailing consecutive non-improving bodies
    restart_in_run,      \* history: a restart happened since the last improving body
    last_move,           \* history: the last body's move, candidate pool and restart flag
    since_move,          \* history: per element, loop bodies since a move last inserted
                         \*   or removed it: tenure when that was exactly tenure
                         \*   bodies ago, tenure + 1 when longer ago or never
    improved_bests       \* history: the element set of each strictly improving best

vars == <<instance, config, pc, best_solution, current_solution,
          prev_best_solution, tabu_list, fixed_elements, recency_memory, iter,
          no_improvement_iter, execution_time, stop_reason, body_count,
          nonimp_run, restart_in_run, last_move, since_move, improved_bests>>

----------------------------------------------------------------------------
(* Bounds of the model *)

MaxTenure == 2
MaxSteps == 5
MaxMaxIter == 3
MaxPatience == 2
MaxRestartPatience == 2

(* Program constants *)

PLACE_HOLDER == -1
NoCand == -2
ProbNum == 4
ProbDen == 5

None == <<>>
Some(x) == <<x>>

----------------------------------------------------------------------------
(* Generic list helpers *)

SetOf(s) == {s[k] : k \in 1..Len(s)}

\* list.remove(x): drops the first occurrence of x
ListRemove(s, x) ==
    LET k == CHOOSE j \in 1..Len(s) : s[j] = x /\ \A i \in 1..(j-1) : s[i] # x
    IN  [i \in 1..(Len(s)-1) |-> IF i < k THEN s[i] ELSE s[i+1]]

\* every ordering of k distinct members of S
Arrangements(S, k) ==
    {s \in [1..k -> S] : \A i, j \in 1..k : i # j => s[i] # s[j]}

RECURSIVE SumOver(_, _)
SumOver(S, f) ==
    IF S = {} THEN 0
    ELSE LET x == CHOOSE y \in S : TRUE
         IN  f[x] + SumOver(S \ {x}, f)

Max(a, b) == IF a >= b THEN a ELSE b
Min(a, b) == IF a <= b THEN a ELSE b

----------------------------------------------------------------------------
(* Problem instances (ScQbfInstance): n elements, the subset of the         *)
(* universe each element covers, and the upper-triangular matrix A of the  *)
(* quadratic objective.                                                    *)

Instances ==
    << \* 1: every element covers the universe alone; element 0 alone is optimal
       [n |-> 3, universe |-> {1},
        cover |-> <<{1}, {1}, {1}>>,
        A |-> << <<2, 1, -2>>, <<0, -2, 0>>, <<0, 0, 0>> >>],
       \* 2: elements 1 and 2 are both needed unless 0 is selected; pairs pay
       [n |-> 3, universe |-> {1, 2},
        cover |-> <<{1, 2}, {1}, {2}>>,
        A |-> << <<1, 1, -2>>, <<0, 1, 2>>, <<0, 0, -1>> >>],
       \* 3: all objective values equal (plateau)
       [n |-> 3, universe |-> {1, 2},
        cover |-> <<{1}, {2}, {1, 2}>>,
        A |-> << <<0, 0, 0>>, <<0, 0, 0>>, <<0, 0, 0>> >>],
       \* 4: the elements together do not cover the universe
       [n |-> 2, universe |-> {1, 2},
        cover |-> <<{1}, {1}>>,
        A |-> << <<1, 0>>, <<0, 1>> >>],
       \* 5: elements 0 and 1 cover the same item, element 2 is always needed
       [n |-> 3, universe |-> {1, 2},
        cover |-> <<{1}, {1}, {2}>>,
        A |-> << <<1, -2, 1>>, <<0, 0, 1>>, <<0, 0, -1>> >>] >>

Inst == Instances[instance]
N == Inst.n
Elements == 0..(N - 1)

----------------------------------------------------------------------------
(* The evaluator (scqbf_evaluator.ScQbfEvaluator), a collaborator whose     *)
(* code is outside src/: modelled from its contract in the specification.  *)

Coverage(elems) == UNION {Inst.cover[e + 1] : e \in SetOf(elems)}

is_solution_feasible(sol) == Coverage(sol) = Inst.universe

evaluate_objfun(sol) ==
    LET S == SetOf(sol)
        row == [i \in S |-> SumOver(S, [j \in S |-> Inst.A[i + 1][j + 1]])]
    IN  SumOver(S, row)

evaluate_insertion_delta(cand_in, sol) ==
    evaluate_objfun(Append(sol, cand_in)) - evaluate_objfun(sol)

evaluate_removal_delta(cand_out, sol) ==
    evaluate_objfun(ListRemove(sol, cand_out)) - evaluate_objfun(sol)

evaluate_exchange_delta(cand_in, cand_out, sol) ==
    evaluate_objfun(ListRemove(Append(sol, cand_in), cand_out)) - evaluate_objfun(sol)

evaluate_insertion_delta_coverage(cand_in, sol) ==
    Cardinality(Inst.cover[cand_in + 1] \ Coverage(sol))

----------------------------------------------------------------------------
(* Tabu list: collections.deque with maxlen = 2 * tenure *)

\* variant: the list holds tenure entries instead of 2 x tenure
TabuCapacityTenure == config.tenure

TabuCapacity == 2 * config.tenure

\* variant: the list starts full of a real index instead of the placeholder
InitialTabuListZeros == [k \in 1..TabuCapacity |-> 0]

InitialTabuList == [k \in 1..TabuCapacity |-> PLACE_HOLDER]

\* variant: an unbounded list that never evicts
DequeAppendUnbounded(q, x) == Append(q, x)

\* deque.append on a bounded deque: a full deque drops its oldest entry
DequeAppend(q, x) ==
    IF TabuCapacity = 0 THEN q
    ELSE IF Len(q) >= TabuCapacity THEN Append(Tail(q), x)
    ELSE Append(q, x)

IsTabu(e, tabu) == e \in SetOf(tabu)

----------------------------------------------------------------------------
(* RestartIntensificationComponent *)

\* variant: the count of an element absent from the new best is kept
update_recency_memory_no_reset(memory, best) ==
    [k \in 1..N |-> IF (k - 1) \in SetOf(best) THEN memory[k] + 1 ELSE memory[k]]

update_recency_memory(memory, best) ==
    [k \in 1..N |-> IF (k - 1) \in SetOf(best) THEN memory[k] + 1 ELSE 0]

\* sorted(range(n), key=recency, reverse=True): stable, so equal counts keep
\* index order
RECURSIVE SortedByRecency(_, _)
SortedByRecency(memory, S) ==
    IF S = {} THEN <<>>
    ELSE LET x == CHOOSE a \in S : \A b \in S :
                      \/ memory[a + 1] > memory[b + 1]
                      \/ memory[a + 1] = memory[b + 1] /\ a <= b
         IN  <<x>> \o SortedByRecency(memory, S \ {x})

get_attractive_elements(memory, max_fixed_elements) ==
    LET sorted_elements == SortedByRecency(memory, Elements)
        positive == SelectSeq(sorted_elements, LAMBDA e : memory[e + 1] > 0)
    IN  SubSeq(positive, 1, Min(max_fixed_elements, Len(positive)))

----------------------------------------------------------------------------
(* Candidate moves.  A move is [kind, in, out]; NoCand stands for None.     *)

NoMove == [kind |-> "none", in |-> NoCand, out |-> NoCand]

InsertionMoves(cl) ==
    [k \in 1..Len(cl) |-> [kind |-> "ins", in |-> cl[k], out |-> NoCand]]

RemovalMoves(sol) ==
    [k \in 1..Len(sol) |-> [kind |-> "rem", in |-> NoCand, out |-> sol[k]]]

\* for cand_in in cl: for cand_out in solution.elements
ExchangeMoves(cl, sol) ==
    [k \in 1..(Len(cl) * Len(sol)) |->
        [kind |-> "exc",
         in   |-> cl[((k - 1) \div Len(sol)) + 1],
         out  |-> sol[((k - 1) % Len(sol)) + 1]]]

MoveDelta(m, sol) ==
    CASE m.kind = "ins" -> evaluate_insertion_delta(m.in, sol)
      [] m.kind = "rem" -> evaluate_removal_delta(m.out, sol)
      [] m.kind = "exc" -> evaluate_exchange_delta(m.in, m.out, sol)
      [] OTHER -> 0

\* new_solution: a copy with the outgoing element removed, then the incoming appended
ApplyMove(sol, m) ==
    LET removed == IF m.out # NoCand THEN ListRemove(sol, m.out) ELSE sol
    IN  IF m.in # NoCand THEN Append(removed, m.in) ELSE removed

\* variant: the move is accepted without the feasibility check
KeepsFeasibleUnchecked(sol, m) == TRUE

\* temp_sol of a removal or an exchange passes the feasibility check
\* (an insertion is applied without any check)
KeepsFeasible(sol, m) ==
    CASE m.kind = "rem" -> is_solution_feasible(ListRemove(sol, m.out))
      [] m.kind = "exc" -> is_solution_feasible(ListRemove(Append(sol, m.in), m.out))
      [] OTHER -> TRUE

aspiration_criterion(current_objfun_val, delta, best_objfun_val) ==
    current_objfun_val + delta > best_objfun_val

----------------------------------------------------------------------------
(* _neighborhood_move_best_improving *)

\* the condition guarding each family's "if delta > best_delta"
EligibleBest(m, sol, tabu, fixed, best_objfun_val) ==
    LET asp == aspiration_criterion(evaluate_objfun(sol), MoveDelta(m, sol), best_objfun_val)
    IN  CASE m.kind = "ins" -> ~IsTabu(m.in, tabu) \/ asp
          [] m.kind = "rem" ->
                 (~IsTabu(m.out, tabu) /\ m.out \notin SetOf(fixed)) /\ asp
          [] m.kind = "exc" ->
                 (~IsTabu(m.in, tabu) /\ ~IsTabu(m.out, tabu) /\ m.out \notin SetOf(fixed))
                 \/ asp
          [] OTHER -> FALSE

\* acc = [inf, delta, move]: inf stands for best_delta = float('-inf')
RECURSIVE BestScan(_, _, _, _, _, _, _)
BestScan(moves, k, acc, sol, tabu, fixed, best_objfun_val) ==
    IF k > Len(moves) THEN acc
    ELSE LET m == moves[k]
             delta == MoveDelta(m, sol)
             take == /\ EligibleBest(m, sol, tabu, fixed, best_objfun_val)
                     /\ (acc.inf \/ delta > acc.delta)
                     /\ KeepsFeasible(sol, m)
             next == IF take THEN [inf |-> FALSE, delta |-> delta, move |-> m] ELSE acc
         IN  BestScan(moves, k + 1, next, sol, tabu, fixed, best_objfun_val)

SelectBestImproving(sol, cl, tabu, fixed, best_objfun_val) ==
    LET a0 == [inf |-> TRUE, delta |-> 0, move |-> NoMove]
        a1 == BestScan(InsertionMoves(cl), 1, a0, sol, tabu, fixed, best_objfun_val)
        a2 == BestScan(RemovalMoves(sol), 1, a1, sol, tabu, fixed, best_objfun_val)
        a3 == BestScan(ExchangeMoves(cl, sol), 1, a2, sol, tabu, fixed, best_objfun_val)
    IN  a3.move

----------------------------------------------------------------------------
(* _neighborhood_move_first_improving *)

EligibleFirst(m, sol, tabu, fixed, best_objfun_val) ==
    LET asp == aspiration_criterion(evaluate_objfun(sol), MoveDelta(m, sol), best_objfun_val)
    IN  CASE m.kind = "ins" -> ~IsTabu(m.in, tabu) \/ asp
          [] m.kind = "rem" ->
                 (~IsTabu(m.out, tabu) /\ m.out \notin SetOf(fixed)) \/ asp
          [] m.kind = "exc" ->
                 (~IsTabu(m.in, tabu) /\ ~IsTabu(m.out, tabu) /\ m.out \notin SetOf(fixed))
                 \/ asp
          [] OTHER -> FALSE

\* variant: a move that leaves the objective unchanged is accepted too
IsImprovementOrEqual(delta) == delta >= 0

\* "if delta > 0" of the three family evaluators
IsImprovement(delta) == delta > 0

\* evaluate_insertions / evaluate_removals / evaluate_exchanges: the first
\* candidate in scan order that passes, or NoMove
RECURSIVE FirstScan(_, _, _, _, _, _)
FirstScan(moves, k, sol, tabu, fixed, best_objfun_val) ==
    IF k > Len(moves) THEN NoMove
    ELSE LET m == moves[k]
         IN  IF /\ EligibleFirst(m, sol, tabu, fixed, best_objfun_val)
                /\ IsImprovement(MoveDelta(m, sol))
                /\ KeepsFeasible(sol, m)
             THEN m
             ELSE FirstScan(moves, k + 1, sol, tabu, fixed, best_objfun_val)

FamilyMoves(family, cl, sol) ==
    CASE family = "ins" -> InsertionMoves(cl)
      [] family = "rem" -> RemovalMoves(sol)
      [] OTHER -> ExchangeMoves(cl, sol)

\* for next_action in actions: run it unless an improvement was already found
RECURSIVE RunActions(_, _, _, _, _, _, _)
RunActions(actions, k, sol, cl, tabu, fixed, best_objfun_val) ==
    IF k > Len(actions) THEN NoMove
    ELSE LET found == FirstScan(FamilyMoves(actions[k], cl, sol), 1,
                                sol, tabu, fixed, best_objfun_val)
         IN  IF found # NoMove THEN found
             ELSE RunActions(actions, k + 1, sol, cl, tabu, fixed, best_objfun_val)

SelectFirstImproving(sol, cl, actions, tabu, fixed, best_objfun_val) ==
    RunActions(actions, 1, sol, cl, tabu, fixed, best_objfun_val)

ActionOrders == Arrangements({"ins", "rem", "exc"}, 3)

----------------------------------------------------------------------------
(* Candidate list of an iteration: the non-selected elements, shuffled, and *)
(* with probabilistic_ts a random.sample of them.                          *)

SampleSize(len) == Max(1, (len * ProbNum) \div ProbDen)

NonSelected(sol) == Elements \ SetOf(sol)

\* random.sample raises ValueError when the sample is larger than the list
SampleRaises(sol) ==
    config.probabilistic_ts /\ SampleSize(Cardinality(NonSelected(sol))) > Cardinality(NonSelected(sol))

CandidateLists(sol) ==
    LET pool == NonSelected(sol)
    IN  IF config.probabilistic_ts
        THEN Arrangements(pool, SampleSize(Cardinality(pool)))
        ELSE Arrangements(pool, Cardinality(pool))

\* variant: the inserted element is appended before the removed one
TabuAfterMoveInFirst(tabu, m) ==
    LET t1 == DequeAppend(tabu, IF m.in # NoCand THEN m.in ELSE PLACE_HOLDER)
    IN  DequeAppend(t1, IF m.out # NoCand THEN m.out ELSE PLACE_HOLDER)

\* the entries one iteration appends: the removed element, then the inserted one
TabuAfterMove(tabu, m) ==
    LET t1 == DequeAppend(tabu, IF m.out # NoCand THEN m.out ELSE PLACE_HOLDER)
    IN  DequeAppend(t1, IF m.in # NoCand THEN m.in ELSE PLACE_HOLDER)

----------------------------------------------------------------------------
(* _constructive_heuristic: every solution the random choices can build,    *)
(* or None when random.choice is handed an empty candidate list.           *)

\* variant: the coverage gain of a candidate is not tested
InRclAnyGain(i, constructed_sol) == i \notin SetOf(constructed_sol)

\* the filter of the restricted candidate list
InRcl(i, constructed_sol) ==
    /\ i \notin SetOf(constructed_sol)
    /\ evaluate_insertion_delta_coverage(i, constructed_sol) > 0

RECURSIVE ConstructOutcomes(_, _)
ConstructOutcomes(constructed_sol, cl) ==
    IF is_solution_feasible(constructed_sol) THEN {Some(constructed_sol)}
    ELSE LET rcl == {i \in cl : InRcl(i, constructed_sol)}
         IN  IF rcl = {} THEN {None}
             ELSE UNION {ConstructOutcomes(Append(constructed_sol, e), rcl \ {e}) : e \in rcl}

----------------------------------------------------------------------------
(* Configurations *)

Options(S) == {None} \cup {Some(x) : x \in S}

IbrComponents ==
    [restart_patience : 1..MaxRestartPatience, max_fixed_elements : {1, 2}]

\* Time is counted in units of the configured limit: the clock reads 0 until
\* the limit has elapsed and 1 from then on, which is all the comparison of
\* line 106 distinguishes.
ClockReadings(last) == last..1

Configs ==
    [tenure : 1..MaxTenure,
     search_strategy : {"first", "best"},
     probabilistic_ts : BOOLEAN,
     ibr_component : Options(IbrComponents),
     max_iter : Options(1..MaxMaxIter),
     time_limit_secs : Options({1}),
     patience : Options(0..MaxPatience)]

HasIbr == config.ibr_component # None
Ibr == config.ibr_component[1]

Best == best_solution[1]
Current == current_solution[1]

----------------------------------------------------------------------------
(* ScQbfTS.__init__ *)

Init ==
    /\ instance \in 1..Len(Instances)
    /\ config \in Configs
    /\ pc = "construct"
    /\ best_solution = None
    /\ current_solution = None
    /\ prev_best_solution = None
    /\ tabu_list = InitialTabuList
    /\ fixed_elements = <<>>
    /\ recency_memory = [k \in 1..N |-> 0]
    /\ iter = 0
    /\ no_improvement_iter = 0
    /\ execution_time = 0
    /\ stop_reason = "None"
    /\ body_count = 0
    /\ nonimp_run = 0
    /\ restart_in_run = FALSE
    /\ last_move = None
    /\ since_move = [e \in Elements |-> config.tenure + 1]
    /\ improved_bests = <<>>

(* solve(), up to the loop: the constructive heuristic and the initial best *)
Construct ==
    /\ pc = "construct"
    /\ \E r \in ConstructOutcomes(<<>>, Elements) :
          IF r = None
          THEN /\ pc' = "error"
               /\ UNCHANGED <<best_solution, current_solution>>
          ELSE /\ pc' = "check"
               /\ best_solution' = r
               /\ current_solution' = r
    /\ iter' = 0
    /\ UNCHANGED <<instance, config, prev_best_solution, tabu_list, fixed_elements,
                   recency_memory, no_improvement_iter, execution_time, stop_reason,
                   body_count, nonimp_run, restart_in_run, last_move, since_move,
                   improved_bests>>

----------------------------------------------------------------------------
(* _eval_termination_condition, given the new counter and clock values:     *)
(* [stop, reason, no_improvement_iter, prev_best_solution]                 *)

\* variant: an equal objective resets the stagnation counter
NoImprovementStrict(current_objfun_val, prev_best_objfun_val) ==
    current_objfun_val < prev_best_objfun_val

\* the test that increments _no_improvement_iter
NoImprovement(current_objfun_val, prev_best_objfun_val) ==
    current_objfun_val <= prev_best_objfun_val

\* variant: the time limit is tested before max_iter
TerminationOutcomeTimeFirst(it, elapsed) ==
    LET keep == [stop |-> TRUE, reason |-> "None",
                 no_improvement_iter |-> no_improvement_iter,
                 prev_best_solution |-> prev_best_solution]
    IN  IF config.time_limit_secs # None /\ elapsed >= config.time_limit_secs[1]
        THEN [keep EXCEPT !.reason = "time_limit"]
        ELSE IF config.max_iter # None /\ it >= config.max_iter[1]
        THEN [keep EXCEPT !.reason = "max_iter"]
        ELSE IF config.patience # None /\ no_improvement_iter >= config.patience[1]
        THEN [keep EXCEPT !.reason = "patience_exceeded"]
        ELSE [stop |-> FALSE, reason |-> "None",
              no_improvement_iter |->
                  IF /\ config.patience # None
                     /\ prev_best_solution # None
                  THEN IF evaluate_objfun(Current) <= evaluate_objfun(prev_best_solution[1])
                       THEN no_improvement_iter + 1
                       ELSE 0
                  ELSE no_improvement_iter,
              prev_best_solution |-> best_solution]

TerminationOutcome(it, elapsed) ==
    LET keep == [stop |-> TRUE, reason |-> "None",
                 no_improvement_iter |-> no_improvement_iter,
                 prev_best_solution |-> prev_best_solution]
    IN  IF config.max_iter # None /\ it >= config.max_iter[1]
        THEN [keep EXCEPT !.reason = "max_iter"]
        ELSE IF config.time_limit_secs # None /\ elapsed >= config.time_limit_secs[1]
        THEN [keep EXCEPT !.reason = "time_limit"]
        ELSE IF config.patience # None /\ no_improvement_iter >= config.patience[1]
        THEN [keep EXCEPT !.reason = "patience_exceeded"]
        ELSE [stop |-> FALSE, reason |-> "None",
              no_improvement_iter |->
                  IF /\ config.patience # None
                     /\ best_solution # None
                     /\ current_solution # None
                     /\ prev_best_solution # None
                  THEN IF NoImprovement(evaluate_objfun(Current),
                                        evaluate_objfun(prev_best_solution[1]))
                       THEN no_improvement_iter + 1
                       ELSE 0
                  ELSE no_improvement_iter,
              prev_best_solution |-> best_solution]

\* one call of _eval_termination_condition, explored while iter < cap
EvalTerminationWithin(cap) ==
    /\ pc = "check"
    /\ iter < cap
    /\ iter' = iter + 1
    /\ \E elapsed \in ClockReadings(execution_time) :
          LET o == TerminationOutcome(iter + 1, elapsed)
          IN  /\ execution_time' = elapsed
              /\ stop_reason' = o.reason
              /\ no_improvement_iter' = o.no_improvement_iter
              /\ prev_best_solution' = o.prev_best_solution
              /\ pc' = IF o.stop THEN "done" ELSE "body"
    /\ UNCHANGED <<instance, config, best_solution, current_solution, tabu_list,
                   fixed_elements, recency_memory, body_count, nonimp_run,
                   restart_in_run, last_move, since_move, improved_bests>>

EvalTermination == EvalTerminationWithin(MaxSteps)

----------------------------------------------------------------------------
(* One execution of the loop body of solve() *)

RestartDue ==
    HasIbr /\ (no_improvement_iter + 1) % Ibr.restart_patience = 0

\* the fixed elements and the solution the move is computed from
FixedAtMove ==
    IF RestartDue
    THEN get_attractive_elements(recency_memory, Ibr.max_fixed_elements)
    ELSE fixed_elements

MoveInput == IF RestartDue THEN Best ELSE Current

\* variant: an equal objective also replaces the best solution
ImprovesBestOrEqual(current_objfun_val, best_objfun_val) ==
    current_objfun_val >= best_objfun_val

ImprovesBest(current_objfun_val, best_objfun_val) ==
    current_objfun_val > best_objfun_val

SelectedMoves(sol, cl, fixed) ==
    IF config.search_strategy = "best"
    THEN {SelectBestImproving(sol, cl, tabu_list, fixed, evaluate_objfun(Best))}
    ELSE {SelectFirstImproving(sol, cl, actions, tabu_list, fixed, evaluate_objfun(Best)) :
              actions \in ActionOrders}

Iteration ==
    /\ pc = "body"
    /\ ~SampleRaises(MoveInput)
    /\ \E cl \in CandidateLists(MoveInput) :
       \E m \in SelectedMoves(MoveInput, cl, FixedAtMove) :
          LET new_solution == ApplyMove(MoveInput, m)
              improved == ImprovesBest(evaluate_objfun(new_solution), evaluate_objfun(Best))
          IN  /\ current_solution' = Some(new_solution)
              /\ tabu_list' = TabuAfterMove(tabu_list, m)
              /\ best_solution' = IF improved THEN Some(new_solution) ELSE best_solution
              /\ recency_memory' =
                     IF improved /\ HasIbr
                     THEN update_recency_memory(recency_memory, new_solution)
                     ELSE recency_memory
              /\ nonimp_run' =
                     IF evaluate_objfun(new_solution) <= evaluate_objfun(Best)
                     THEN nonimp_run + 1 ELSE 0
              /\ restart_in_run' =
                     IF evaluate_objfun(new_solution) <= evaluate_objfun(Best)
                     THEN restart_in_run \/ RestartDue ELSE FALSE
              /\ last_move' = Some([move |-> m, pool |-> SetOf(cl),
                                    restart |-> RestartDue])
              /\ since_move' =
                     [e \in Elements |->
                         IF e \in {m.in, m.out} THEN 0
                         ELSE Min(since_move[e] + 1, config.tenure + 1)]
              /\ improved_bests' =
                     IF evaluate_objfun(new_solution) > evaluate_objfun(Best)
                     THEN Append(improved_bests, SetOf(new_solution))
                     ELSE improved_bests
    /\ fixed_elements' = FixedAtMove
    /\ body_count' = body_count + 1
    /\ pc' = "check"
    /\ UNCHANGED <<instance, config, prev_best_solution, iter, no_improvement_iter,
                   execution_time, stop_reason>>

\* random.sample raises out of solve(): the restart of this iteration has
\* already been applied
IterationRaises ==
    /\ pc = "body"
    /\ SampleRaises(MoveInput)
    /\ current_solution' = Some(MoveInput)
    /\ fixed_elements' = FixedAtMove
    /\ pc' = "error"
    /\ UNCHANGED <<instance, config, best_solution, prev_best_solution, tabu_list,
                   recency_memory, iter, no_improvement_iter, execution_time,
                   stop_reason, body_count, nonimp_run, restart_in_run, last_move,
                   since_move, improved_bests>>

Next == Construct \/ EvalTermination \/ Iteration \/ IterationRaises

Spec == Init /\ [][Next]_vars

----------------------------------------------------------------------------
(* Runs with patience configured, followed to their end.  solve() is one   *)
(* sequential loop, so a step that can be taken is taken (weak fairness).  *)
(* LiveSteps is the number of termination checks such a run can make at    *)
(* most: with V distinct objective values among the feasible solutions the *)
(* best solution improves fewer than V times, and each of the V stretches  *)
(* without improvement holds at most patience + 1 bodies.                  *)
(* No time limit is configured in these runs: the clock only adds a way to *)
(* stop.                                                                   *)
(* BodyStep is the step that ends a loop body, the one Iteration or        *)
(* IterationRaises takes; one of the two can be taken whenever pc = "body" *)
(* (BodyCanStep).                                                          *)

\* per instance, the number of distinct objective values of its feasible
\* solutions
ObjValueCount ==
    [i \in 1..Len(Instances) |->
        LET inst == Instances[i]
            feasible == {S \in SUBSET (0..(inst.n - 1)) :
                            UNION {inst.cover[e + 1] : e \in S} = inst.universe}
            obj(S) == SumOver(S, [a \in S |-> SumOver(S, [b \in S |-> inst.A[a + 1][b + 1]])])
        IN  Cardinality({obj(S) : S \in feasible})]

LiveSteps == ObjValueCount[instance] * (config.patience[1] + 2)

LiveInit == Init /\ config.patience # None /\ config.time_limit_secs = None

LiveEvalTermination == EvalTerminationWithin(LiveSteps)

LiveNext == Construct \/ LiveEvalTermination \/ Iteration \/ IterationRaises

BodyStep == pc = "body" /\ pc' \in {"check", "error"}

BodyCanStep == SampleRaises(MoveInput) \/ CandidateLists(MoveInput) # {}

LiveSpec ==
    /\ LiveInit
    /\ [][LiveNext]_vars
    /\ WF_vars(Construct)
    /\ WF_vars(LiveEvalTermination)
    /\ WF_pc(BodyStep)

----------------------------------------------------------------------------
(* Properties *)

PlaceholdersOnly(tabu) == \A k \in 1..Len(tabu) : tabu[k] = PLACE_HOLDER

\* every move of the three families over a candidate pool and a solution
AllMoves(pool, sol) ==
    {[kind |-> "ins", in |-> i, out |-> NoCand] : i \in pool}
    \cup {[kind |-> "rem", in |-> NoCand, out |-> o] : o \in SetOf(sol)}
    \cup {[kind |-> "exc", in |-> i, out |-> o] : i \in pool, o \in SetOf(sol)}

MoveElements(m) == {m.in, m.out} \ {NoCand}

IterationStep == pc = "body" /\ pc' = "check"
TerminationStep == pc = "check" /\ pc' # "check"

OnlyMaxIter ==
    config.max_iter # None /\ config.time_limit_secs = None /\ config.patience = None
OnlyPatience ==
    config.max_iter = None /\ config.time_limit_secs = None /\ config.patience # None

(* C1: once construction has succeeded, the current solution and the best  *)
(* solution cover the whole universe in every state, so the solution       *)
(* solve() returns is feasible.                                            *)
C1_SolutionsFeasible ==
    /\ best_solution # None =>
          /\ current_solution # None
          /\ is_solution_feasible(Best)
          /\ is_solution_feasible(Current)
    /\ pc \in {"check", "body", "done"} => best_solution # None

\* a removal or exchange was applied although another removal would have
\* uncovered the universe
C1_Witness ==
    /\ pc = "done"
    /\ last_move # None
    /\ last_move[1].move.out # NoCand
    /\ Len(Current) >= 2
    /\ \E e \in SetOf(Current) : ~is_solution_feasible(ListRemove(Current, e))

(* C2: in both strategies and all three families a feasibility-preserving  *)
(* move that meets the aspiration criterion is among the moves compared    *)
(* even when its elements are tabu: under best-improving the applied move  *)
(* is at least as good as it, under first-improving an improving move is   *)
(* applied.                                                                *)
C2_AspirationOverride ==
    [][IterationStep =>
         \A m \in AllMoves(last_move'[1].pool, MoveInput) :
            ( /\ KeepsFeasible(MoveInput, m)
              /\ m.out \notin SetOf(FixedAtMove)
              /\ aspiration_criterion(evaluate_objfun(MoveInput),
                                      MoveDelta(m, MoveInput), evaluate_objfun(Best)) )
            => IF config.search_strategy = "best"
               THEN evaluate_objfun(current_solution'[1])
                        >= evaluate_objfun(MoveInput) + MoveDelta(m, MoveInput)
               ELSE evaluate_objfun(current_solution'[1]) > evaluate_objfun(MoveInput)
      ]_vars

(* C3: with max_iter = K the only stopping condition, solve() ends after   *)
(* exactly K loop bodies with stop_reason "max_iter".                      *)
C3_MaxIterBodies ==
    (OnlyMaxIter /\ pc = "done") =>
        /\ stop_reason = "max_iter"
        /\ body_count = config.max_iter[1]

(* C4: with patience = P the only stopping condition, solve() ends with    *)
(* stop_reason "patience_exceeded" after at most P consecutive             *)
(* non-improving loop bodies.                                              *)
C4_PatienceBodies ==
    (OnlyPatience /\ pc = "done") =>
        /\ stop_reason = "patience_exceeded"
        /\ nonimp_run <= config.patience[1]

(* C5: with intensification configured, whatever stopping conditions are   *)
(* configured, once restart_patience consecutive non-improving iterations  *)
(* have run a restart has been performed in that run of iterations, and a  *)
(* restart sets the current solution to the best one and the fixed         *)
(* elements to the attractive ones (none unless a recency count is         *)
(* positive).                                                              *)
C5_RestartAfterStagnation ==
    [][(IterationStep /\ HasIbr) =>
         /\ nonimp_run' >= Ibr.restart_patience => restart_in_run'
         /\ last_move'[1].restart =>
               /\ SetOf(current_solution'[1]) \subseteq SetOf(Best) \cup last_move'[1].pool
               /\ fixed_elements' =
                      get_attractive_elements(recency_memory, Ibr.max_fixed_elements)
               /\ fixed_elements' # <<>> => \E e \in Elements : recency_memory[e + 1] > 0
      ]_vars

(* C6: the objective of the best solution never decreases, and the best    *)
(* solution changes only in an iteration whose new current solution has an *)
(* objective strictly greater than the best objective.                     *)
C6_BestMonotone ==
    [][best_solution # None =>
         /\ evaluate_objfun(best_solution'[1]) >= evaluate_objfun(Best)
         /\ best_solution' # best_solution =>
               /\ IterationStep
               /\ best_solution' = current_solution'
               /\ evaluate_objfun(current_solution'[1]) > evaluate_objfun(Best)
      ]_vars

\* an improvement was recorded and later bodies moved the current solution
\* away from it
C6_Witness ==
    /\ HasIbr
    /\ \E e \in Elements : recency_memory[e + 1] > 0
    /\ nonimp_run >= 2
    /\ SetOf(Current) # SetOf(Best)

(* C7: the tabu list always holds exactly 2 x tenure entries, and an       *)
(* iteration's two appends evict exactly the two oldest entries.           *)
C7_TabuCapacity ==
    [][/\ Len(tabu_list) = 2 * config.tenure
       /\ Len(tabu_list') = 2 * config.tenure
       /\ IF IterationStep
          THEN \E a, b \in Elements \cup {PLACE_HOLDER} :
                  tabu_list' = SubSeq(tabu_list, 3, Len(tabu_list)) \o <<a, b>>
          ELSE tabu_list' = tabu_list
      ]_vars

\* a real entry has been evicted: the list is full of later entries
C7_Witness ==
    /\ body_count > config.tenure
    /\ \E k \in 1..Len(tabu_list) : tabu_list[k] # PLACE_HOLDER
    /\ last_move # None /\ last_move[1].move # NoMove

(* C8 as stated: during each of the first tenure iterations the tabu list  *)
(* holds no real element index.                                            *)
C8_NoRealEntryEarly ==
    (pc = "body" /\ iter <= config.tenure) => PlaceholdersOnly(tabu_list)

(* C8 amended: during iteration k <= tenure the oldest 2 x (tenure-k+1)    *)
(* entries of the tabu list are placeholders (all of them in the first     *)
(* iteration); the newer entries may be the elements moved in iterations   *)
(* 1 .. k-1.                                                               *)
C8_PlaceholdersRemainEarly ==
    (pc = "body" /\ iter <= config.tenure) =>
        /\ \A k \in 1..(2 * (config.tenure - iter + 1)) : tabu_list[k] = PLACE_HOLDER
        /\ iter = 1 => PlaceholdersOnly(tabu_list)

C8_Witness ==
    /\ pc = "body"
    /\ iter = config.tenure
    /\ iter >= 2
    /\ ~PlaceholdersOnly(tabu_list)

(* C9: a termination check increments the iteration counter, then tests    *)
(* max_iter, time_limit and patience in that order, the first that holds   *)
(* giving stop_reason; stop_reason is unset while the loop runs and set    *)
(* exactly when it has stopped.                                            *)
C9_TerminationOrder ==
    [][/\ (stop_reason = "None") <=> (pc # "done")
       /\ (stop_reason' = "None") <=> (pc' # "done")
       /\ TerminationStep =>
            LET by_max_iter == config.max_iter # None /\ iter' >= config.max_iter[1]
                by_time == /\ config.time_limit_secs # None
                           /\ execution_time' >= config.time_limit_secs[1]
                by_patience == /\ config.patience # None
                               /\ no_improvement_iter >= config.patience[1]
            IN  /\ iter' = iter + 1
                /\ stop_reason' =
                      IF by_max_iter THEN "max_iter"
                      ELSE IF by_time THEN "time_limit"
                      ELSE IF by_patience THEN "patience_exceeded"
                      ELSE "None"
      ]_vars

\* all three conditions held at the check that stopped the loop
C9_Witness ==
    /\ pc = "done"
    /\ iter >= 2
    /\ stop_reason = "max_iter"
    /\ config.time_limit_secs # None /\ execution_time >= config.time_limit_secs[1]
    /\ config.patience # None /\ no_improvement_iter >= config.patience[1]

(* C10: under best-improving, an iteration in which some                   *)
(* feasibility-preserving move has non-tabu elements and a non-fixed       *)
(* outgoing element applies a move: the current solution changes.          *)
C10_BestNeverStalls ==
    [][(/\ IterationStep
        /\ config.search_strategy = "best"
        /\ \E m \in AllMoves(last_move'[1].pool, MoveInput) :
              /\ KeepsFeasible(MoveInput, m)
              /\ \A e \in MoveElements(m) : ~IsTabu(e, tabu_list)
              /\ m.out \notin SetOf(FixedAtMove))
       => /\ last_move'[1].move # NoMove
          /\ current_solution'[1] # MoveInput
      ]_vars

(* C11: under first-improving, an iteration in which no family yields an   *)
(* eligible feasibility-preserving move of strictly positive delta still   *)
(* applies some move: the current solution after the iteration differs     *)
(* from the solution the iteration started from.                           *)
C11_FirstAlwaysMoves ==
    [][(/\ IterationStep
        /\ config.search_strategy = "first"
        /\ \A m \in AllMoves(last_move'[1].pool, MoveInput) :
              ~( /\ EligibleFirst(m, MoveInput, tabu_list, FixedAtMove,
                                  evaluate_objfun(Best))
                 /\ MoveDelta(m, MoveInput) > 0
                 /\ KeepsFeasible(MoveInput, m) ))
       => /\ last_move'[1].move # NoMove
          /\ SetOf(current_solution'[1]) # SetOf(MoveInput)
      ]_vars

(* C12: no applied move of either strategy takes an element of the         *)
(* fixed-element set out of the current solution, neither as the removed   *)
(* element of a removal nor as the outgoing element of an exchange.        *)
C12_FixedNeverLeaves ==
    [][IterationStep =>
         \A e \in SetOf(fixed_elements') :
            e \in SetOf(MoveInput) => e \in SetOf(current_solution'[1])
      ]_vars

\* the element an iteration took out of / put into the solution it started
\* from, or the placeholder
RemovedBy(before, after) ==
    IF SetOf(before) \ SetOf(after) = {} THEN PLACE_HOLDER
    ELSE CHOOSE e \in SetOf(before) \ SetOf(after) : TRUE

InsertedBy(before, after) ==
    IF SetOf(after) \ SetOf(before) = {} THEN PLACE_HOLDER
    ELSE CHOOSE e \in SetOf(after) \ SetOf(before) : TRUE

(* C13: every iteration of either strategy, also one that selects no move, *)
(* appends exactly two entries to the tabu list: first the element removed *)
(* from the solution (or the placeholder), then the element inserted (or   *)
(* the placeholder); no other step changes the tabu list.                  *)
C13_TwoAppendsPerIteration ==
    [][IF IterationStep
       THEN /\ Cardinality(SetOf(MoveInput) \ SetOf(current_solution'[1])) <= 1
            /\ Cardinality(SetOf(current_solution'[1]) \ SetOf(MoveInput)) <= 1
            /\ tabu_list' = DequeAppend(
                                DequeAppend(tabu_list,
                                            RemovedBy(MoveInput, current_solution'[1])),
                                InsertedBy(MoveInput, current_solution'[1]))
       ELSE tabu_list' = tabu_list
      ]_vars

\* an exchange was applied: both appended entries are real elements, the
\* outgoing one first
C13_Witness ==
    /\ last_move # None
    /\ last_move[1].move.kind = "exc"
    /\ tabu_list[Len(tabu_list) - 1] = last_move[1].move.out
    /\ tabu_list[Len(tabu_list)] = last_move[1].move.in
    /\ last_move[1].move.out # last_move[1].move.in

(* C14: an element inserted or removed by the move of iteration t is in    *)
(* the tabu list during the move evaluation of iterations t+1 .. t+tenure  *)
(* and, unless moved again, no longer from iteration t+tenure+1 on; an     *)
(* element never moved is never tabu.  In every state: an element is tabu  *)
(* exactly when a move touched it within the last tenure loop bodies.      *)
C14_TenureSemantics ==
    \A e \in Elements : IsTabu(e, tabu_list) <=> since_move[e] < config.tenure

\* an element moved exactly tenure bodies ago has just left the list while
\* a more recently moved one is still in it
C14_Witness ==
    /\ pc = "body"
    /\ config.tenure >= 2
    /\ \E e \in Elements : since_move[e] = config.tenure /\ ~IsTabu(e, tabu_list)
    /\ \E e \in Elements : since_move[e] = config.tenure - 1 /\ IsTabu(e, tabu_list)

\* the number of consecutive most recent strict improvements whose solution
\* contained e
RECURSIVE TrailingCount(_, _)
TrailingCount(e, h) ==
    IF h = <<>> THEN 0
    ELSE IF e \notin h[Len(h)] THEN 0
    ELSE 1 + TrailingCount(e, SubSeq(h, 1, Len(h) - 1))

RecencyCountsImprovements(memory, h) ==
    \A e \in Elements : memory[e + 1] = TrailingCount(e, h)

(* C15: with intensification configured, recency_memory[e] is the number   *)
(* of consecutive most recent strict improvements of the best solution     *)
(* whose solution contained e (0 before any improvement), and a step that  *)
(* does not strictly improve the best solution leaves the recency memory   *)
(* unchanged.                                                              *)
C15_RecencyMemory ==
    [][HasIbr =>
         /\ RecencyCountsImprovements(recency_memory, improved_bests)
         /\ RecencyCountsImprovements(recency_memory', improved_bests')
         /\ (best_solution' = best_solution) => (recency_memory' = recency_memory)
      ]_vars

\* two improvements in a row kept an element and a third dropped another
C15_Witness ==
    /\ HasIbr
    /\ Len(improved_bests) >= 2
    /\ \E e \in Elements : recency_memory[e + 1] >= 2
    /\ \E e \in Elements :
          /\ recency_memory[e + 1] = 0
          /\ \E k \in 1..Len(improved_bests) : e \in improved_bests[k]

\* the instance has a feasible solution: all elements together cover the universe
Coverable == is_solution_feasible([k \in 1..N |-> k - 1])

\* every element alone covers the universe
EachCoversAlone == \A e \in Elements : is_solution_feasible(<<e>>)

(* C16: the constructive heuristic always terminates.  On an instance      *)
(* whose elements together cover the universe it returns a feasible        *)
(* solution of distinct elements, each of strictly positive marginal       *)
(* coverage gain when it was added (a single element when every element    *)
(* alone covers the universe); otherwise it ends in an error raised to the *)
(* caller and returns no solution.                                         *)
C16_Construction ==
    [][pc = "construct" =>
         /\ ENABLED Construct
         /\ IF Coverable
            THEN LET sol == current_solution'[1]
                 IN  /\ pc' = "check"
                     /\ best_solution' = current_solution'
                     /\ is_solution_feasible(sol)
                     /\ Cardinality(SetOf(sol)) = Len(sol)
                     /\ \A k \in 1..Len(sol) :
                           evaluate_insertion_delta_coverage(sol[k], SubSeq(sol, 1, k - 1)) > 0
                     /\ EachCoversAlone => Len(sol) = 1
            ELSE /\ pc' = "error"
                 /\ best_solution' = None
                 /\ current_solution' = None
      ]_vars

\* a construction of two elements that left out an element which had
\* positive coverage gain at the start and none after the first choice
C16_Witness ==
    /\ pc = "check"
    /\ iter = 0
    /\ Len(Current) = 2
    /\ \E e \in Elements \ SetOf(Current) :
          /\ evaluate_insertion_delta_coverage(e, <<>>) > 0
          /\ evaluate_insertion_delta_coverage(e, <<Current[1]>>) = 0

\* eligibility as C17 states it: no element of the move is tabu and the
\* outgoing element is not fixed, or the aspiration criterion holds
EligibleAsStated(m, sol, tabu, fixed, best_objfun_val) ==
    \/ /\ \A e \in MoveElements(m) : ~IsTabu(e, tabu)
       /\ m.out \notin SetOf(fixed)
    \/ aspiration_criterion(evaluate_objfun(sol), MoveDelta(m, sol), best_objfun_val)

\* scan order: insertions, then removals, then exchanges
ScanOrder(cl, sol) == InsertionMoves(cl) \o RemovalMoves(sol) \o ExchangeMoves(cl, sol)

\* the first move in scan order of greatest delta among the candidates,
\* NoMove when there is none
FirstGreatest(scan, cands, sol) ==
    LET idx == {k \in 1..Len(scan) :
                   /\ scan[k] \in cands
                   /\ \A c \in cands : MoveDelta(scan[k], sol) >= MoveDelta(c, sol)}
    IN  IF idx = {} THEN NoMove
        ELSE scan[CHOOSE k \in idx : \A j \in idx : k <= j]

(* C17: the move applied by best-improving is the move of greatest delta   *)
(* among all eligible feasibility-preserving insertions, removals and      *)
(* exchanges of the iteration (eligible: elements not tabu and outgoing    *)
(* element not fixed, or aspiration holds); among moves of equal greatest  *)
(* delta the first in scan order is applied.                               *)
C17_BestSelectsGreatest ==
    [][(IterationStep /\ config.search_strategy = "best") =>
         LET sol == MoveInput
             pool == last_move'[1].pool
             cands == {c \in AllMoves(pool, sol) :
                          /\ EligibleAsStated(c, sol, tabu_list, FixedAtMove,
                                              evaluate_objfun(Best))
                          /\ KeepsFeasible(sol, c)}
         IN  \E cl \in Arrangements(pool, Cardinality(pool)) :
                last_move'[1].move = FirstGreatest(ScanOrder(cl, sol), cands, sol)
      ]_vars

(* C18: with probabilistic_ts enabled every iteration, whatever the number *)
(* of non-selected elements, completes without raising, and its candidate  *)
(* pool is a subset of the non-selected elements of size                   *)
(* max(1, floor(|candidates| x probabilistic_param)).                      *)
C18_SampledPool ==
    [][(pc = "body" /\ config.probabilistic_ts) =>
         /\ pc' = "check"
         /\ last_move'[1].pool \subseteq NonSelected(MoveInput)
         /\ Cardinality(last_move'[1].pool) =
                Max(1, (Cardinality(NonSelected(MoveInput)) * ProbNum) \div ProbDen)
      ]_vars

Terminated == pc \in {"done", "error"}

(* C19: with patience configured solve() eventually terminates, on every   *)
(* instance, under either strategy, with or without intensification, also  *)
(* when max_iter and time_limit_secs are not configured.                   *)
C19_PatienceTerminates ==
    /\ [](pc = "body" => BodyCanStep)
    /\ <>Terminated

\* a run with patience as its only stopping condition ended after the best
\* solution improved twice and the counter ran up again
C19_Witness ==
    /\ pc = "done"
    /\ OnlyPatience
    /\ stop_reason = "patience_exceeded"
    /\ Len(improved_bests) >= 2
    /\ config.patience[1] >= 1
    /\ nonimp_run >= 2

(* C20: under first-improving the objective of the current solution equals *)
(* the objective of the best solution in every state, in particular at the *)
(* start of every iteration; so the aspiration criterion of a move holds   *)
(* exactly when its delta is positive, and for every candidate order each  *)
(* family evaluator selects the move it would select with an empty tabu    *)
(* list and no fixed elements.                                             *)
C20_FirstIgnoresTabu ==
    (config.search_strategy = "first" /\ best_solution # None) =>
        /\ evaluate_objfun(Current) = evaluate_objfun(Best)
        /\ pc = "body" =>
              /\ evaluate_objfun(MoveInput) = evaluate_objfun(Best)
              /\ \A m \in AllMoves(NonSelected(MoveInput), MoveInput) :
                    aspiration_criterion(evaluate_objfun(MoveInput),
                                         MoveDelta(m, MoveInput), evaluate_objfun(Best))
                    <=> MoveDelta(m, MoveInput) > 0
              /\ \A cl \in CandidateLists(MoveInput) :
                 \A family \in {"ins", "rem", "exc"} :
                    FirstScan(FamilyMoves(family, cl, MoveInput), 1, MoveInput,
                              tabu_list, FixedAtMove, evaluate_objfun(Best))
                    = FirstScan(FamilyMoves(family, cl, MoveInput), 1, MoveInput,
                                <<>>, <<>>, evaluate_objfun(Best))

\* an iteration is about to start in which an improving feasible exchange
\* or removal takes out an element that is both tabu and fixed
C20_Witness ==
    /\ config.search_strategy = "first"
    /\ pc = "body"
    /\ \E m \in AllMoves(NonSelected(MoveInput), MoveInput) :
          /\ MoveDelta(m, MoveInput) > 0
          /\ KeepsFeasible(MoveInput, m)
          /\ m.out # NoCand
          /\ IsTabu(m.out, tabu_list)
          /\ m.out \in SetOf(FixedAtMove)

====
